---- MODULE Spec2Model ----
(***************************************************************************)
(* Token-ordered pagination of tap-sherpaan.                               *)
(*                                                                         *)
(* Three token drivers are modelled, statement group by statement group:   *)
(*   "token_pagination"      SherpaStream.get_records_with_token_pagination *)
(*                           (client.py)                                   *)
(*   "custom_client_method"  PaginatedStream.                              *)
(*                           get_records_with_custom_client_method         *)
(*                           (pagination.py, used by every concrete stream)*)
(*   "token"                 PaginatedStream.get_records_with_token        *)
(*                           (pagination.py, reached from get_records)     *)
(*                                                                         *)
(* The transport and the state store of the SDK are collaborators outside  *)
(* the repository.  The transport is the environment: every fetch either   *)
(* raises or returns a response drawn from a bounded set.  The state store *)
(* is modelled by its interface: _increment_stream_state puts the cursor   *)
(* into the in-memory tap state, _write_state_message makes the in-memory  *)
(* state durable, get_starting_replication_key_value reads it back.        *)
(***************************************************************************)
EXTENDS Integers, Sequences, FiniteSets, TLC

\* ---------------------------------------------------------------- bounds
\* Largest token the service hands out.
MaxTok == 3
\* Largest number of items in one page (the page size of the service).
MaxPage == 2
\* Largest number of pages fetched in one run.
MaxFetch == 3
\* Largest number of runs of the process (first run plus restarts).
MaxRuns == 2
\* Largest number of items the change log of the ordered service holds.
MaxDb == 3
\* Largest max_retries a configuration sets.
MaxConfigured == 4
\* Number of distinct fan-out keys (OrderNumber, ClientCode).
MaxKeys == 2
\* Largest number of parent records one run of a parent stream hands to
\* get_child_context.
MaxObs == 3
\* Largest number of stream instances (runs) in one process.
MaxInstances == 2
\* Deepest nesting of the value of a field of an item.
MaxDepth == 1
\* Largest number of elements of a sequence inside an item.
MaxList == 1
\* Largest chunk_size a configuration sets, the default aside.
MaxChunk == 2
\* Largest ResponseTime a response carries.
MaxTime == 1

\* ------------------------------------------------------ program constants
\* stop_after_attempt(3) of the retry decorator.
MaxAttempts == 3
\* The starting cursor when the state holds none.
DefaultToken == 1
\* The default of the max_retries setting.
DefaultMaxRetries == 3
\* The default of the chunk_size setting, and of the count / maxResult /
\* page_size parameters of the request builders.
DefaultChunkSize == 200

Drivers == {"token_pagination", "custom_client_method", "token"}
Retrying == {"token_pagination", "token"}

\* What an attempt of a fetch can raise: a network failure, a timeout or a
\* 5xx answer ("transient"), a refused security code ("auth"), a request the
\* service rejects ("malformed").
Errors == {"transient", "auth", "malformed"}
\* What reaches the caller of a run that raises: the error of an attempt, the
\* RetryError of the retry decorator, or the error of int() / item.get on an
\* item.
Raised == Errors \cup {"RetryError", "ItemError"}

\* ------------------------------------------------------------------ items
\* An item of a page.  dict: the item is a mapping.  tk says what its Token
\* field holds: an integer text ("int", value tv), nothing ("missing"), a
\* null ("null") or a text that is no integer ("text").  id identifies the
\* item in the change log of the ordered service (0: not identified).
IntItem(t, i) == [dict |-> TRUE, tk |-> "int", tv |-> t, id |-> i]
OddItem(k) == [dict |-> TRUE, tk |-> k, tv |-> 0, id |-> 0]
NonDictItem == [dict |-> FALSE, tk |-> "missing", tv |-> 0, id |-> 0]

DictItems == {IntItem(t, 0) : t \in 0..MaxTok} \cup {OddItem(k) : k \in {"missing", "null", "text"}}
AnyItems == DictItems \cup {NonDictItem}

Pages == UNION {[1..n -> AnyItems] : n \in 0..MaxPage}

\* What one fetch can return, by where the items are in it:
\*   "list"         the item container (the items key) holds a list
\*   "single"       the item container holds one mapping
\*   "scalar"       the item container holds a non-empty scalar
\*   "absent"       no result, or a result with no item container
\*   "alt_key"      no items key, the items are under one of the other keys
\*                  the custom-client-method driver looks for
\*   "result_item"  no items key, the result itself is one item (it has a
\*                  SupplierCode, ItemCode or ClientCode field)
\* rt: the ResponseTime of the response (NoTime: it has none).
NoTime == 0 - 1
ResponseTimes == {NoTime} \cup 1..MaxTime

Responses ==
    {[shape |-> "list", items |-> p, rt |-> NoTime] : p \in Pages}
        \cup {[shape |-> k, items |-> <<i>>, rt |-> NoTime] :
                k \in {"single", "alt_key", "result_item"}, i \in DictItems}
        \cup {[shape |-> k, items |-> <<>>, rt |-> NoTime] :
                k \in {"scalar", "absent", "alt_key"}}

\* No response in hand.
NoResponse == [shape |-> "none", items |-> <<>>, rt |-> NoTime]

\* ------------------------------------------------------------ state store
NoBookmark == [has |-> "absent", v |-> 0]
Bookmarks ==
    {NoBookmark, [has |-> "novalue", v |-> 0]}
        \cup {[has |-> "value", v |-> c] : c \in 0..MaxTok}

VARIABLES
    driver,         \* the token driver this stream runs
    tap_state,      \* the bookmark of the stream in the in-memory tap state
    written,        \* the bookmark of the last state message written (durable)
    pc,             \* position of the run
    token,          \* the cursor the driver holds (token / last_token)
    resp,           \* the response of the last fetch
    items,          \* the items of the page being processed
    idx,            \* index of the next item of the page
    highest_token,  \* running maximum of the page
    out,            \* records emitted from the current page, in order
    attempts,       \* failed attempts of the fetch being retried
    fetches,        \* pages fetched in this run
    writes,         \* state messages written in this run
    reqCursor,      \* cursor carried by the last request issued
    pageCursor,     \* cursor carried by the request that returned the page
    fetchStore,     \* the durable bookmark when the last page was fetched
    run,            \* number of the run
    wrote,          \* some run has written a state message
    db,             \* change log of the ordered service (tokens, ascending)
    emittedNow,     \* identified items emitted in this run
    emittedBefore,  \* identified items emitted in earlier runs
    unpersisted,    \* identified items emitted, by any run, since the last
                    \* state write
    inflight,       \* the unpersisted items when the previous run stopped
    max_retries,    \* the max_retries setting (PaginationConfig.max_retries)
    lastErr,        \* what the last failed attempt of the fetch raised
    waits,          \* backoff waits of the fetch in progress, or of the fetch
                    \* that returned the page the driver is about to process
    raisedErr,      \* what reached the caller of the run
    total_records,  \* the _total_records counter of the stream
    chunk_size,     \* the chunk_size setting (PaginationConfig.chunk_size)
    paginate,       \* the paginate attribute of the stream class
    keyless,        \* the items of the change log with no OrderNumber
    reqSize,        \* page size carried by the last request issued
    times,          \* the response_time of the records of out, in order
    yielded         \* identified items get_records yielded in this run

\* The fan-out of a parent stream (ChangedPurchasesStream,
\* ChangedSuppliersStream).
VARIABLES
    fanStream,      \* the parent stream
    instance,       \* number of the stream instance (run) in the process
    seen,           \* ChangedPurchasesStream._unique_order_numbers
    occurrences,    \* per key: parent records of this run that carried it
    contexts,       \* per key: contexts get_child_context returned in this run
    first,          \* per key: what its first occurrence in this run got
    given,          \* keys that got a context in an earlier run of the process
    syncs,          \* per key: child syncs done for its contexts in this run
    nullSyncs       \* child syncs done in this run with no context

\* The handling of one item of a page.
VARIABLES
    klass,          \* the class whose _process_nested_objects the stream has
    collection,     \* the name of the stream
    raw,            \* the item object the transport returned, as it is now
    received,       \* its value when the transport returned it
    processed_item, \* what _process_nested_objects returned
    record,         \* the record the driver yields
    renorm,         \* what _process_nested_objects returned for its own output
    npc             \* position of the handling

\* get_records_with_offset.
VARIABLES
    offset,         \* the offset the loop holds
    limit,          \* the limit the loop holds
    opc,            \* position of the loop
    records,        \* number of records of the page in hand (NoRecords: no key)
    opos,           \* records of the page in hand yielded so far
    emittedTotal,   \* records yielded since the call
    reqOffset,      \* offset carried by the last request issued
    reqLimit,       \* limit carried by the last request issued
    ofetches,       \* responses received since the call
    oattempts,      \* failed attempts of the request under way
    offsetState,    \* the offset given to _increment_stream_state last
    offsetWritten   \* the offset in the last state message of the loop

vars == <<driver, tap_state, written, pc, token, resp, items, idx, highest_token,
          out, attempts, fetches, writes, reqCursor, pageCursor, fetchStore, run,
          wrote, db, emittedNow, emittedBefore, unpersisted, inflight,
          max_retries, lastErr, waits, raisedErr, total_records,
          chunk_size, paginate, keyless, reqSize, times, yielded,
          fanStream, instance, seen, occurrences, contexts, first, given,
          syncs, nullSyncs,
          klass, collection, raw, received, processed_item, record, renorm, npc,
          offset, limit, opc, records, opos, emittedTotal, reqOffset, reqLimit,
          ofetches, oattempts, offsetState, offsetWritten>>

locals == <<resp, items, idx, highest_token, out, times>>
history == <<emittedNow, emittedBefore, unpersisted, inflight, yielded>>
config == <<max_retries, chunk_size, paginate, keyless>>
retry == <<lastErr, waits, raisedErr>>
fanout == <<fanStream, instance, seen, occurrences, contexts, first, given,
            syncs, nullSyncs>>
normalizer == <<klass, collection, raw, received, processed_item, record, renorm, npc>>
offsetting == <<offset, limit, opc, records, opos, emittedTotal, reqOffset, reqLimit,
                ofetches, oattempts, offsetState, offsetWritten>>
\* What a run of a token driver leaves alone.
aside == <<fanout, normalizer, offsetting>>

\* ------------------------------------------------------- starting cursor
\* get_starting_replication_key_value: the value read from the bookmark st
\* (none: the method returns None).
SherpaStream_get_starting_replication_key_value(st) ==
    IF st.has = "value" THEN [none |-> FALSE, v |-> st.v]
    ELSE [none |-> FALSE, v |-> 0]

PaginatedStream_get_starting_replication_key_value(st) ==
    IF st.has = "absent" THEN [none |-> FALSE, v |-> DefaultToken]
    ELSE IF st.has = "value" THEN [none |-> FALSE, v |-> st.v]
    ELSE [none |-> TRUE, v |-> 0]

GetStartingDefaultsOnly(d, st) ==
    IF d = "token_pagination" THEN [none |-> FALSE, v |-> 0]
    ELSE [none |-> FALSE, v |-> DefaultToken]

\* The method of the class the driver belongs to.
get_starting_replication_key_value(d, st) ==
    IF d = "token_pagination"
    THEN SherpaStream_get_starting_replication_key_value(st)
    ELSE PaginatedStream_get_starting_replication_key_value(st)

StartingTokenNoDefault(d, st) == get_starting_replication_key_value(d, st).v

\* The head of each driver: the default applied to the value read.
\*   token_pagination:      if not token or token == "0": token = "1"
\*   custom_client_method:  if token is None: token = "1"
\*   token:                 if last_token is None: last_token = 1
StartingToken(d, st) ==
    LET got == get_starting_replication_key_value(d, st)
    IN  IF d = "token_pagination"
        THEN IF got.v = 0 THEN DefaultToken ELSE got.v
        ELSE IF got.none THEN DefaultToken ELSE got.v

\* ------------------------------------------------------ item container
\* The items a driver takes out of a response r; stop: the driver breaks.
Stop == [stop |-> TRUE, items |-> <<>>]
Page(its) == [stop |-> FALSE, items |-> its]

\* get_records_with_token_pagination: response.get(items_key), the
\* ResponseValue fallback, "if not items: break", a non-list is wrapped.
ContainerTokenPagination(r) ==
    IF r.shape \in {"absent", "alt_key", "result_item"} THEN Stop
    ELSE IF r.shape = "scalar" THEN Page(<<NonDictItem>>)
    ELSE IF r.items = <<>> THEN Stop
    ELSE Page(r.items)

\* get_records_with_custom_client_method: result[items_key] (a non-list is
\* wrapped), else the first of the other keys, else the result as one item,
\* else break; "if not items: break".
ContainerCustomClientMethod(r) ==
    IF r.shape = "absent" THEN Stop
    ELSE IF r.shape = "scalar" THEN Page(<<NonDictItem>>)
    ELSE IF r.items = <<>> THEN Stop
    ELSE Page(r.items)

\* get_records_with_token: the response path, "if not items: break", a
\* non-list becomes the empty list.
ContainerToken(r) ==
    IF r.shape \in {"absent", "alt_key", "result_item"} THEN Stop
    ELSE IF r.shape \in {"single", "scalar"} THEN Page(<<>>)
    ELSE IF r.items = <<>> THEN Stop
    ELSE Page(r.items)

ContainerNeverStops(d, r) == Page(r.items)

Container(d, r) ==
    IF d = "token_pagination" THEN ContainerTokenPagination(r)
    ELSE IF d = "custom_client_method" THEN ContainerCustomClientMethod(r)
    ELSE ContainerToken(r)

\* ------------------------------------------------------- page processing
\* int(item.get("Token", 0)) raises on a null and on a text that is no integer.
TokenRaises(it) == it.tk \in {"null", "text"}
ItemToken(it) == IF it.tk = "int" THEN it.tv ELSE 0

\* What a driver does with an item that is no mapping: the first two skip
\* it, get_records_with_token calls item.get on it, which raises.
SkipsNonMapping(d) == d # "token"

\* highest_token = int(token)
SeedZero(d, tok) == 0
SeedHighest(d, tok) == tok

\* if item_token > highest_token: highest_token = item_token
CountHighest(high, t) == high + 1
UpdateHighest(high, t) == IF t > high THEN t ELSE high

\* "if record:" before the yield; the record of an item is never empty.
EmitsAdvancing(d, it, high) == ItemToken(it) > high
Emits(d, it, high) == TRUE

\* The test that lets the loop go on to the next request:
\* highest_token > int(token) in the first two drivers, highest_token > 0
\* in get_records_with_token.
AdvancesAlways(d, high, tok) == high > 0
Advances(d, high, tok) ==
    IF d = "token" THEN high > 0 ELSE high > tok

Ids(s) == {s[i].id : i \in 1..Len(s)} \ {0}

\* ------------------------------------------------------------------ retry
\* @retry(stop=stop_after_attempt(3), wait=wait_exponential(...)) on
\* _make_soap_request and _make_request, whose bodies raise again whatever
\* the transport raised.  The decorator is given no retry= argument, so it
\* asks for another attempt whatever the error e of attempt number n was,
\* until MaxAttempts attempts were made; the max_retries setting is not among
\* its arguments.  The custom-client-method driver calls the transport with
\* no decorator.
Retries(d, e, n) == d \in Retrying /\ n < MaxAttempts

\* wait_exponential: one wait before the next attempt.
NoBackoff(w) == w
Backoff(w) == w + 1

\* What the caller gets when no further attempt is made.  The decorator is
\* given no reraise= argument: it raises its RetryError, which holds the last
\* attempt.  Without the decorator the error of the attempt goes up.
Propagated(d, e) == IF d \in Retrying THEN "RetryError" ELSE e

\* The counters of a run are kept up to MaxFetch, which they reach only in
\* a run that fetches more than MaxFetch pages.
Count(n) == IF n < MaxFetch THEN n + 1 ELSE n

\* ---------------------------------------------------------------- request
\* The page size a request of driver d carries when the chunk_size setting
\* is cs.
\*   custom_client_method:  envelope_method(token=int(token), **method_params),
\*                          and no stream passes a method parameter: count
\*                          (maxResult) keeps its default.
\*   token_pagination:      the page_size argument, which has a default and
\*                          no caller.
\*   token:                 count (maxResult) = str(chunk_size), put among the
\*                          parameters by PaginatedStream.get_records.
PageSize(d, cs) == IF d = "token" THEN cs ELSE DefaultChunkSize

\* response.get("ResponseTime", 0)
ResponseTimeDefault(r) == 0
ResponseTime(r) == IF r.rt = NoTime THEN 0 ELSE r.rt

\* What get_records of stream st does with a record of its driver:
\* ChangedPurchasesStream yields it if record.get("OrderNumber") is truthy,
\* the other streams yield it (yield from).  kl: the items with no
\* OrderNumber.
YieldsAll(st, it, kl) == TRUE
get_records(st, it, kl) == st = "changed_purchases" => it.id \notin kl

\* No records key in a response.
NoRecords == 0 - 1

\* ---------------------------------------------------------------- fan-out
\* The keys parent records carry; NoKey: the record has no (or an empty)
\* key field.
Keys == 1..MaxKeys
NoKey == 0
FanStreams == {"changed_purchases", "changed_suppliers"}
NoneSeen == [k \in Keys |-> 0]
NotYet == [k \in Keys |-> "unseen"]
Classes == {"SherpaStream", "PaginatedStream"}
\* The kind and the content of a value of an item.
KindOf(v) == v[1]
ValOf(v) == v[2]
Collections == {"changed_items_information", "changed_stock"}

TypeOK ==
    /\ driver \in Drivers
    /\ tap_state \in Bookmarks /\ written \in Bookmarks
    /\ pc \in {"idle", "fetch", "items", "persist", "write", "done", "raised", "crashed",
              "cancelled"}
    /\ token \in 0..MaxTok
    /\ idx \in 1..(MaxPage + 1)
    /\ attempts \in 0..MaxAttempts
    /\ fetches \in 0..MaxFetch /\ writes \in 0..MaxFetch
    /\ run \in 1..MaxRuns
    /\ max_retries \in 1..MaxConfigured
    /\ lastErr \in Errors \cup {"none"}
    /\ waits \in 0..MaxAttempts
    /\ raisedErr \in Raised \cup {"none"}
    /\ total_records \in 0..MaxFetch
    /\ chunk_size \in 1..MaxChunk \cup {DefaultChunkSize}
    /\ paginate \in BOOLEAN
    /\ keyless \subseteq 1..MaxDb
    /\ reqSize \in {0} \cup 1..MaxChunk \cup {DefaultChunkSize}
    /\ times \in Seq({0} \cup 1..MaxTime)
    /\ yielded \subseteq 1..MaxDb
    /\ fanStream \in FanStreams
    /\ instance \in 1..MaxInstances
    /\ seen \subseteq Keys /\ given \subseteq Keys
    /\ occurrences \in [Keys -> 0..MaxObs]
    /\ contexts \in [Keys -> 0..MaxObs]
    /\ first \in [Keys -> {"unseen", "ctx", "none", "raised"}]
    /\ syncs \in [Keys -> 0..MaxObs]
    /\ nullSyncs \in 0..MaxObs
    /\ klass \in Classes
    /\ collection \in Collections
    /\ npc \in {"idle", "received", "emitted", "again", "raised"}
    /\ \A v \in {raw, received, processed_item, record, renorm} :
            KindOf(v) \in {"null", "dict", "raised"}
    /\ offset \in 0..(MaxFetch * MaxPage)
    /\ limit \in {0} \cup 1..MaxChunk \cup {DefaultChunkSize}
    /\ opc \in {"idle", "request", "records", "done", "raised"}
    /\ records \in {NoRecords} \cup 0..MaxPage
    /\ opos \in 0..MaxPage
    /\ emittedTotal \in 0..(MaxFetch * MaxPage)
    /\ reqOffset \in 0..(MaxFetch * MaxPage)
    /\ reqLimit \in {0} \cup 1..MaxChunk \cup {DefaultChunkSize}
    /\ ofetches \in 0..MaxFetch
    /\ oattempts \in 0..MaxAttempts
    /\ offsetState \in {NoRecords} \cup 0..(MaxFetch * MaxPage)
    /\ offsetWritten \in {NoRecords} \cup 0..(MaxFetch * MaxPage)

InitCommon ==
    /\ driver \in Drivers
    /\ written \in Bookmarks
    /\ tap_state = written
    /\ pc = "idle"
    /\ token = 0
    /\ resp = NoResponse
    /\ items = <<>>
    /\ idx = 1
    /\ highest_token = 0
    /\ out = <<>>
    /\ attempts = 0
    /\ fetches = 0
    /\ writes = 0
    /\ reqCursor = 0
    /\ pageCursor = 0
    /\ fetchStore = written
    /\ run = 1
    /\ wrote = FALSE
    /\ emittedNow = {}
    /\ emittedBefore = {}
    /\ unpersisted = {}
    /\ inflight = {}
    /\ lastErr = "none"
    /\ waits = 0
    /\ raisedErr = "none"
    /\ total_records = 0
    /\ reqSize = 0
    /\ times = <<>>
    /\ yielded = {}

\* The settings other than max_retries at their defaults, a stream that
\* paginates, a service whose every item has an OrderNumber.
Unconfigured ==
    /\ chunk_size = DefaultChunkSize
    /\ paginate = TRUE
    /\ keyless = {}

\* A process in which no parent stream has handled a record yet.
FanStart ==
    /\ instance = 1
    /\ seen = {}
    /\ occurrences = NoneSeen
    /\ contexts = NoneSeen
    /\ first = NotYet
    /\ given = {}
    /\ syncs = NoneSeen
    /\ nullSyncs = 0

\* The fan-out is not looked at.
FanIdle == fanStream = "changed_purchases" /\ FanStart

\* None: no item, no record.
None == <<"null", <<>>>>

\* No item is being handled.
NormIdle ==
    /\ klass = "PaginatedStream"
    /\ collection = "changed_items_information"
    /\ raw = None
    /\ received = None
    /\ processed_item = None
    /\ record = None
    /\ renorm = None
    /\ npc = "idle"

\* get_records_with_offset has not been called.
OffsetIdle ==
    /\ offset = 0
    /\ limit = 0
    /\ opc = "idle"
    /\ records = NoRecords
    /\ opos = 0
    /\ emittedTotal = 0
    /\ reqOffset = 0
    /\ reqLimit = 0
    /\ ofetches = 0
    /\ oattempts = 0
    /\ offsetState = NoRecords
    /\ offsetWritten = NoRecords

\* The tap with its default settings.
Init ==
    /\ InitCommon /\ db = <<>> /\ max_retries = DefaultMaxRetries /\ Unconfigured
    /\ FanIdle /\ NormIdle /\ OffsetIdle

\* The head of a driver, before its loop.
StartRun ==
    /\ pc = "idle"
    /\ token' = StartingToken(driver, tap_state)
    /\ pc' = "fetch"
    /\ UNCHANGED <<driver, tap_state, written, locals, attempts, fetches, writes,
                   reqCursor, reqSize, pageCursor, fetchStore, run, wrote, db, history,
                   config, total_records, aside, retry>>

\* One attempt of the fetch raises.  _make_soap_request and _make_request
\* retry up to MaxAttempts attempts; the custom-client-method driver calls the
\* transport directly.
AttemptFails(e) ==
    /\ pc = "fetch"
    /\ fetches < MaxFetch
    /\ reqCursor' = token
    /\ reqSize' = PageSize(driver, chunk_size)
    /\ attempts' = attempts + 1
    /\ lastErr' = e
    /\ IF Retries(driver, e, attempts + 1)
       THEN /\ waits' = Backoff(waits)
            /\ pc' = "fetch"
            /\ UNCHANGED raisedErr
       ELSE /\ pc' = "raised"
            /\ raisedErr' = Propagated(driver, e)
            /\ UNCHANGED waits
    /\ UNCHANGED <<driver, tap_state, written, token, locals, fetches, writes,
                   pageCursor, fetchStore, run, wrote, db, history, config,
                   total_records, aside>>

FetchFails == \E e \in Errors : AttemptFails(e)

\* The fetch returns r; the driver takes the items out of it.
FetchReturns(r) ==
    /\ pc = "fetch"
    /\ fetches < MaxFetch
    /\ reqCursor' = token
    /\ reqSize' = PageSize(driver, chunk_size)
    /\ pageCursor' = token
    /\ fetches' = fetches + 1
    /\ attempts' = 0
    /\ fetchStore' = written
    /\ resp' = r
    /\ LET c == Container(driver, r)
       IN  /\ items' = c.items
           /\ pc' = IF c.stop THEN "done" ELSE "items"
    /\ idx' = 1
    /\ highest_token' = SeedHighest(driver, token)
    /\ out' = <<>>
    /\ times' = <<>>
    /\ lastErr' = "none"
    /\ UNCHANGED <<driver, tap_state, written, token, writes, run, wrote, db, history,
                   config, total_records, aside, waits, raisedErr>>

Fetch == \E r \in Responses : FetchReturns(r)

\* One iteration of the loop over the items of the page.
ProcessItem ==
    /\ pc = "items"
    /\ idx <= Len(items)
    /\ waits' = 0
    /\ LET it == items[idx]
       IN  IF ~it.dict
           THEN /\ pc' = IF SkipsNonMapping(driver) THEN "items" ELSE "raised"
                /\ idx' = IF SkipsNonMapping(driver) THEN idx + 1 ELSE idx
                /\ raisedErr' = IF SkipsNonMapping(driver) THEN raisedErr ELSE "ItemError"
                /\ UNCHANGED <<highest_token, out, times, emittedNow, unpersisted,
                               yielded>>
           ELSE IF TokenRaises(it)
           THEN /\ pc' = "raised"
                /\ raisedErr' = "ItemError"
                /\ UNCHANGED <<idx, highest_token, out, times, emittedNow,
                               unpersisted, yielded>>
           ELSE /\ highest_token' = UpdateHighest(highest_token, ItemToken(it))
                /\ UNCHANGED raisedErr
                /\ IF Emits(driver, it, highest_token)
                   THEN /\ out' = Append(out, it)
                        /\ times' = Append(times, ResponseTime(resp))
                        /\ emittedNow' = emittedNow \cup Ids(<<it>>)
                        /\ unpersisted' = unpersisted \cup Ids(<<it>>)
                        /\ yielded' =
                             IF get_records(fanStream, it, keyless)
                             THEN yielded \cup Ids(<<it>>) ELSE yielded
                   ELSE UNCHANGED <<out, times, emittedNow, unpersisted, yielded>>
                /\ idx' = idx + 1
                /\ pc' = "items"
    /\ UNCHANGED <<driver, tap_state, written, token, resp, items, attempts, fetches,
                   writes, reqCursor, reqSize, pageCursor, fetchStore, run, wrote, db, emittedBefore,
                   inflight, config, total_records, aside, lastErr>>

\* After the loop over the items: the token for the next request.
EndPageNoWrite ==
    /\ pc = "items"
    /\ idx > Len(items)
    /\ IF Advances(driver, highest_token, token)
       THEN /\ token' = highest_token
            /\ pc' = "fetch"
       ELSE /\ pc' = "done"
            /\ UNCHANGED token
    /\ waits' = 0
    /\ UNCHANGED <<driver, tap_state, written, locals, attempts, fetches, writes,
                   reqCursor, reqSize, pageCursor, fetchStore, run, wrote, db, history,
                   config, total_records, aside, lastErr, raisedErr>>

EndPageEarly ==
    /\ pc = "items"
    /\ IF Advances(driver, highest_token, token)
       THEN /\ token' = highest_token
            /\ pc' = "persist"
       ELSE /\ pc' = "done"
            /\ UNCHANGED token
    /\ waits' = 0
    /\ UNCHANGED <<driver, tap_state, written, locals, attempts, fetches, writes,
                   reqCursor, reqSize, pageCursor, fetchStore, run, wrote, db, history,
                   config, total_records, aside, lastErr, raisedErr>>

EndPage ==
    /\ pc = "items"
    /\ idx > Len(items)
    /\ IF Advances(driver, highest_token, token)
       THEN /\ token' = highest_token
            /\ pc' = "persist"
       ELSE /\ pc' = "done"
            /\ UNCHANGED token
    /\ waits' = 0
    /\ UNCHANGED <<driver, tap_state, written, locals, attempts, fetches, writes,
                   reqCursor, reqSize, pageCursor, fetchStore, run, wrote, db, history,
                   config, total_records, aside, lastErr, raisedErr>>

IncrementStateStale ==
    /\ pc = "persist"
    /\ tap_state' = [has |-> "value", v |-> pageCursor]
    /\ total_records' = Count(total_records)
    /\ pc' = "write"
    /\ UNCHANGED <<driver, written, token, locals, attempts, fetches, writes,
                   reqCursor, reqSize, pageCursor, fetchStore, run, wrote, db, history,
                   config, aside, retry>>

\* self._increment_stream_state(token): the cursor goes into the tap state
\* and the counter of the stream goes up by one.
IncrementState ==
    /\ pc = "persist"
    /\ tap_state' = [has |-> "value", v |-> token]
    /\ total_records' = Count(total_records)
    /\ pc' = "write"
    /\ UNCHANGED <<driver, written, token, locals, attempts, fetches, writes,
                   reqCursor, reqSize, pageCursor, fetchStore, run, wrote, db, history,
                   config, aside, retry>>

\* self._write_state_message(): the tap state becomes durable.  The loop
\* goes back to its head: the locals of the page are dead from here on (each
\* is assigned again before it is read), so they are forgotten.
WriteState ==
    /\ pc = "write"
    /\ written' = tap_state
    /\ writes' = Count(writes)
    /\ wrote' = TRUE
    /\ unpersisted' = {}
    /\ pc' = "fetch"
    /\ resp' = NoResponse
    /\ items' = <<>>
    /\ idx' = 1
    /\ highest_token' = 0
    /\ out' = <<>>
    /\ times' = <<>>
    /\ pageCursor' = 0
    /\ fetchStore' = tap_state
    /\ waits' = 0
    /\ UNCHANGED <<driver, tap_state, token, attempts, fetches, reqCursor, reqSize, run, db,
                   emittedNow, emittedBefore, inflight, yielded, config, total_records,
                   aside, lastErr, raisedErr>>

\* The process dies; everything in memory is lost.
Crash ==
    /\ pc \in {"fetch", "items", "persist", "write"}
    /\ pc' = "crashed"
    /\ tap_state' = written
    /\ token' = 0
    /\ resp' = NoResponse
    /\ items' = <<>>
    /\ idx' = 1
    /\ highest_token' = 0
    /\ out' = <<>>
    /\ times' = <<>>
    /\ attempts' = 0
    /\ lastErr' = "none"
    /\ waits' = 0
    /\ total_records' = 0
    /\ UNCHANGED <<driver, written, fetches, writes, reqCursor, reqSize, pageCursor, fetchStore,
                   run, wrote, db, history, config, aside, raisedErr>>

\* The consumer of the records stops pulling: the generator is closed where
\* it is suspended, at the yield of a record of the page.  No statement
\* after the yield runs; the frame of the generator is gone.
Cancel ==
    /\ pc = "items"
    /\ idx > 1
    /\ items[idx - 1].dict
    /\ pc' = "cancelled"
    /\ token' = 0
    /\ resp' = NoResponse
    /\ items' = <<>>
    /\ idx' = 1
    /\ highest_token' = 0
    /\ out' = <<>>
    /\ times' = <<>>
    /\ waits' = 0
    /\ UNCHANGED <<driver, tap_state, written, attempts, fetches, writes, reqCursor, reqSize,
                   pageCursor, fetchStore, run, wrote, db, history, config,
                   total_records, aside,
                   lastErr, raisedErr>>

\* A new process starts from the durable state.
Restart ==
    /\ pc \in {"done", "raised", "crashed", "cancelled"}
    /\ run < MaxRuns
    /\ run' = run + 1
    /\ tap_state' = written
    /\ pc' = "idle"
    /\ token' = 0
    /\ resp' = NoResponse
    /\ items' = <<>>
    /\ idx' = 1
    /\ highest_token' = 0
    /\ out' = <<>>
    /\ times' = <<>>
    /\ attempts' = 0
    /\ fetches' = 0
    /\ writes' = 0
    /\ reqCursor' = 0
    /\ reqSize' = 0
    /\ pageCursor' = 0
    /\ fetchStore' = written
    /\ emittedBefore' = emittedBefore \cup emittedNow
    /\ emittedNow' = {}
    /\ yielded' = {}
    /\ inflight' = unpersisted
    /\ lastErr' = "none"
    /\ waits' = 0
    /\ raisedErr' = "none"
    /\ total_records' = 0
    /\ UNCHANGED <<driver, written, wrote, db, unpersisted, config, aside>>

Next ==
    \/ StartRun
    \/ FetchFails
    \/ Fetch
    \/ ProcessItem
    \/ EndPage
    \/ IncrementState
    \/ WriteState
    \/ Crash
    \/ Cancel
    \/ Restart

Spec == Init /\ [][Next]_vars

\* ------------------------------------------------------- ordered service
\* A service that answers "everything changed since token T": a change log
\* of items with ascending tokens; a fetch with cursor c returns the first
\* MaxPage items whose token is greater than c.
Dbs ==
    {d \in UNION {[1..n -> 1..MaxTok] : n \in 0..MaxDb} :
        \A i \in 1..Len(d) : \A j \in 1..Len(d) : i < j => d[i] <= d[j]}

DbItems(d) == [i \in 1..Len(d) |-> IntItem(d[i], i)]

DbResponse(d, c) ==
    LET sel == SelectSeq(DbItems(d), LAMBDA it : it.tv > c)
        n == IF Len(sel) < MaxPage THEN Len(sel) ELSE MaxPage
    IN  [shape |-> "list", items |-> SubSeq(sel, 1, n), rt |-> NoTime]

\* The tap with any max_retries setting.
InitService ==
    /\ InitCommon /\ db \in Dbs /\ max_retries \in 1..MaxConfigured
    /\ Unconfigured
    /\ FanIdle /\ NormIdle /\ OffsetIdle

\* The answer of the service, with or without a ResponseTime.
FetchService ==
    \E rt \in ResponseTimes :
        FetchReturns([DbResponse(db, token) EXCEPT !.rt = rt])

NextService ==
    \/ StartRun
    \/ FetchFails
    \/ FetchService
    \/ ProcessItem
    \/ EndPage
    \/ IncrementState
    \/ WriteState
    \/ Crash
    \/ Cancel
    \/ Restart

SpecService == InitService /\ [][NextService]_vars

\* ------------------------------------------------------ changed_purchases
\* ChangedPurchasesStream against the ordered service, some of whose items
\* have no OrderNumber.
InitPurchases ==
    /\ InitCommon /\ driver = "custom_client_method"
    /\ db \in Dbs /\ max_retries = DefaultMaxRetries
    /\ chunk_size = DefaultChunkSize
    /\ paginate = TRUE
    /\ keyless \in SUBSET (1..Len(db))
    /\ FanIdle /\ NormIdle /\ OffsetIdle

SpecPurchases == InitPurchases /\ [][NextService]_vars

\* ------------------------------------------------------ streams as set up
\* The streams of the tap with any chunk_size setting, the detail streams
\* (paginate = False: SupplierInfoStream, PurchaseInfoStream) among them,
\* against a service that answers as it likes, and run to their end.
ChunkSizes == 1..MaxChunk \cup {DefaultChunkSize}

\* What the service answers to a detail stream: the result is the one item
\* asked for, or there is none.
DetailResponses == {r \in Responses : r.shape \in {"result_item", "absent"}}

InitStreams ==
    /\ InitCommon /\ db = <<>> /\ max_retries = DefaultMaxRetries
    /\ chunk_size \in ChunkSizes
    /\ paginate \in BOOLEAN
    /\ ~paginate => driver = "custom_client_method"
    /\ keyless = {}
    /\ FanIdle /\ NormIdle /\ OffsetIdle

FetchStream ==
    \E r \in Responses : (paginate \/ r \in DetailResponses) /\ FetchReturns(r)

\* A fetch after the MaxFetch-th of the run: it is fetched and handled as
\* the others are, and counted no further.
FetchBeyond ==
    \E r \in Responses :
        /\ paginate \/ r \in DetailResponses
        /\ pc = "fetch"
        /\ fetches = MaxFetch
        /\ reqCursor' = token
        /\ reqSize' = PageSize(driver, chunk_size)
        /\ pageCursor' = token
        /\ attempts' = 0
        /\ fetchStore' = written
        /\ resp' = r
        /\ LET c == Container(driver, r)
           IN  /\ items' = c.items
               /\ pc' = IF c.stop THEN "done" ELSE "items"
        /\ idx' = 1
        /\ highest_token' = SeedHighest(driver, token)
        /\ out' = <<>>
        /\ times' = <<>>
        /\ lastErr' = "none"
        /\ UNCHANGED <<driver, tap_state, written, token, fetches, writes, run, wrote,
                       db, history, config, total_records, aside, waits, raisedErr>>

\* The steps of the run itself: the consumer pulls the generator, the
\* transport answers or fails.
RunSteps ==
    \/ StartRun
    \/ FetchFails
    \/ FetchStream
    \/ FetchBeyond
    \/ ProcessItem
    \/ EndPage
    \/ IncrementState
    \/ WriteState

NextStreams ==
    \/ StartRun
    \/ FetchFails
    \/ FetchStream
    \/ FetchBeyond
    \/ ProcessItem
    \/ EndPage
    \/ IncrementState
    \/ WriteState
    \/ Crash
    \/ Cancel
    \/ Restart

SpecStreams == InitStreams /\ [][NextStreams]_vars /\ WF_vars(RunSteps)

\* ------------------------------------------------- fan-out of the parents
\* All the variables of a run of a token driver.
paging == <<driver, tap_state, written, pc, token, resp, items, idx, highest_token,
            out, attempts, fetches, writes, reqCursor, pageCursor, fetchStore, run,
            wrote, db, emittedNow, emittedBefore, unpersisted, inflight,
            max_retries, lastErr, waits, raisedErr, total_records,
            chunk_size, paginate, keyless, reqSize, times, yielded>>

\* A stream that is not running: the token driver has not started.
PagingIdle ==
    /\ InitCommon
    /\ driver = "custom_client_method"
    /\ written = NoBookmark
    /\ db = <<>>
    /\ max_retries = DefaultMaxRetries
    /\ Unconfigured

\* get_child_context(record, context) of stream st with the set of seen
\* keys sn, for a record whose key field holds k.  ctx: the context returned
\* ("none": None is returned, "raised": record["ClientCode"] raises);
\* seen: the set afterwards.
\*   ChangedPurchasesStream: None for a record with no OrderNumber and for an
\*   OrderNumber in _unique_order_numbers; else the key is added to the set
\*   and a context is returned.
\*   ChangedSuppliersStream: a context for every record.
ChangedPurchasesStream_get_child_context(sn, k) ==
    IF k = NoKey THEN [ctx |-> "none", seen |-> sn]
    ELSE IF k \in sn THEN [ctx |-> "none", seen |-> sn]
    ELSE [ctx |-> "ctx", seen |-> sn \cup {k}]

ChangedSuppliersStream_get_child_context(sn, k) ==
    IF k = NoKey THEN [ctx |-> "raised", seen |-> sn]
    ELSE [ctx |-> "ctx", seen |-> sn]

get_child_context(st, sn, k) ==
    IF st = "changed_purchases" THEN ChangedPurchasesStream_get_child_context(sn, k)
    ELSE ChangedSuppliersStream_get_child_context(sn, k)

\* _sync_children(child_context) of the parent streams: whether the child
\* streams are synced.  ChangedPurchasesStream calls the method of the base
\* class if child_context is not None; the base class (ChangedSuppliersStream
\* has no method of its own) returns at once for None.
SyncsAlways(st, ctx) == TRUE
sync_children(st, ctx) == ctx = "ctx"

\* The parent stream hands a record with key k to get_child_context, and
\* what it returns to _sync_children.
ChildContext(k) ==
    /\ \A j \in Keys : occurrences[j] < MaxObs
    /\ LET got == get_child_context(fanStream, seen, k)
       IN  /\ seen' = got.seen
           /\ IF k = NoKey
              THEN UNCHANGED <<occurrences, contexts, first>>
              ELSE /\ occurrences' = [occurrences EXCEPT ![k] = @ + 1]
                   /\ contexts' =
                        [contexts EXCEPT ![k] = IF got.ctx = "ctx" THEN @ + 1 ELSE @]
                   /\ first' =
                        [first EXCEPT ![k] = IF @ = "unseen" THEN got.ctx ELSE @]
           /\ LET done == got.ctx # "raised" /\ sync_children(fanStream, got.ctx)
              IN  /\ syncs' = IF done /\ got.ctx = "ctx"
                               THEN [syncs EXCEPT ![k] = @ + 1] ELSE syncs
                  /\ nullSyncs' = IF done /\ got.ctx = "none" /\ nullSyncs < MaxObs
                                   THEN nullSyncs + 1 ELSE nullSyncs
    /\ UNCHANGED <<fanStream, instance, given, paging, normalizer, offsetting>>

GetChildContext == \E k \in Keys \cup {NoKey} : ChildContext(k)

\* Another instance of the stream starts a run in the same process.  The
\* class attribute _unique_order_numbers is the one set of the class: no
\* instance assigns it, every instance adds to it.
NewInstance ==
    /\ instance < MaxInstances
    /\ instance' = instance + 1
    /\ given' = given \cup {k \in Keys : contexts[k] > 0}
    /\ occurrences' = NoneSeen
    /\ contexts' = NoneSeen
    /\ first' = NotYet
    /\ syncs' = NoneSeen
    /\ nullSyncs' = 0
    /\ UNCHANGED <<fanStream, seen, paging, normalizer, offsetting>>

InitFanout ==
    PagingIdle /\ fanStream \in FanStreams /\ FanStart /\ NormIdle /\ OffsetIdle

NextFanout ==
    \/ GetChildContext
    \/ NewInstance

SpecFanout == InitFanout /\ [][NextFanout]_vars

\* ------------------------------------------------------------- normalizer
\* A value of an item, as xmltodict builds it: the pair of its kind and its
\* content.
\*   "null"  None
\*   "str"   a string; content: its characters, as a sequence of tokens.  The
\*           text json.dumps makes is a string like any other.
\*   "dict"  a mapping; content: its <<key, value>> pairs, in insertion order
\*   "list"  a sequence; content: its elements
Null == None
Str(toks) == <<"str", toks>>
Dict(pairs) == <<"dict", pairs>>
List(elems) == <<"list", elems>>

\* key.startswith('@'): "@m" stands for the attribute keys of xmltodict.
IsMeta(key) == key = "@m"

\* The key sequences of the mappings inside an item.
KeySeqs == {<<"@m">>, <<"k">>, <<"@m", "k">>}
\* The keys of the one field of an item.
TopKeys == {"@m", "k", "ItemInformation"}

Leaves == {Null, Str(<<"x">>), Dict(<<>>), List(<<>>)}
DictsOver(V) ==
    UNION {{Dict([i \in 1..Len(ks) |-> <<ks[i], f[i]>>]) : f \in [1..Len(ks) -> V]} :
            ks \in KeySeqs}
ListsOver(V) == UNION {{List(f) : f \in [1..n -> V]} : n \in 1..MaxList}

RECURSIVE Values(_)
Values(n) ==
    IF n = 0 THEN Leaves
    ELSE LET V == Values(n - 1) IN V \cup DictsOver(V) \cup ListsOver(V)

\* The items: no field, or one field of any key and any value.
RawItems ==
    {Dict(<<>>)} \cup
    {Dict(<< <<key, v>> >>) : key \in TopKeys, v \in Values(MaxDepth)}

\* clean_xml_artifacts of PaginatedStream._process_nested_objects.
RECURSIVE clean_xml_artifacts(_)
RECURSIVE CleanPairs(_)
CleanPairs(ps) ==
    IF ps = <<>> THEN <<>>
    ELSE LET key == ps[1][1]
             cleaned_value == clean_xml_artifacts(ps[1][2])
             rest == CleanPairs(Tail(ps))
         IN  IF IsMeta(key) THEN rest
             ELSE IF cleaned_value = Null THEN rest
             ELSE <<(<<key, cleaned_value>>)>> \o rest

clean_xml_artifacts(obj) ==
    IF KindOf(obj) = "dict"
    THEN IF ValOf(obj) = <<>> THEN Null
         ELSE LET cleaned == CleanPairs(ValOf(obj))
              IN  IF cleaned = <<>> THEN Null ELSE Dict(cleaned)
    ELSE IF KindOf(obj) = "list"
    THEN List([i \in 1..Len(ValOf(obj)) |-> clean_xml_artifacts(ValOf(obj)[i])])
    ELSE obj

\* json.dumps: the text of a value, token by token.  (The strings of an item
\* hold no quote, so none is escaped.)
RECURSIVE Encode(_)
RECURSIVE EncodePairs(_)
RECURSIVE EncodeElems(_)
EncodePairs(ps) ==
    IF ps = <<>> THEN <<>>
    ELSE <<ps[1][1]>> \o Encode(ps[1][2]) \o EncodePairs(Tail(ps))
EncodeElems(es) ==
    IF es = <<>> THEN <<>> ELSE Encode(es[1]) \o EncodeElems(Tail(es))
Encode(v) ==
    IF KindOf(v) = "null" THEN <<"null">>
    ELSE IF KindOf(v) = "str" THEN <<"\"">> \o ValOf(v) \o <<"\"">>
    ELSE IF KindOf(v) = "dict" THEN <<"{">> \o EncodePairs(ValOf(v)) \o <<"}">>
    ELSE <<"[">> \o EncodeElems(ValOf(v)) \o <<"]">>

dumps(v) == Str(Encode(v))

\* json.loads: the value of a text.  A parse step gives the value read and
\* the position after it.
RECURSIVE ParseValue(_, _)
RECURSIVE ParseString(_, _, _)
RECURSIVE ParseMembers(_, _, _)
RECURSIVE ParseElements(_, _, _)
ParseString(t, i, acc) ==
    IF t[i] = "\"" THEN [v |-> Str(acc), n |-> i + 1]
    ELSE ParseString(t, i + 1, Append(acc, t[i]))
ParseMembers(t, i, acc) ==
    IF t[i] = "}" THEN [v |-> Dict(acc), n |-> i + 1]
    ELSE LET r == ParseValue(t, i + 1)
         IN  ParseMembers(t, r.n, Append(acc, <<t[i], r.v>>))
ParseElements(t, i, acc) ==
    IF t[i] = "]" THEN [v |-> List(acc), n |-> i + 1]
    ELSE LET r == ParseValue(t, i)
         IN  ParseElements(t, r.n, Append(acc, r.v))
ParseValue(t, i) ==
    IF t[i] = "null" THEN [v |-> Null, n |-> i + 1]
    ELSE IF t[i] = "\"" THEN ParseString(t, i + 1, <<>>)
    ELSE IF t[i] = "{" THEN ParseMembers(t, i + 1, <<>>)
    ELSE ParseElements(t, i + 1, <<>>)
loads(t) == ParseValue(t, 1).v

\* processed[key] = value on a mapping held as pairs.
RECURSIVE Put(_, _, _)
Put(ps, key, v) ==
    IF ps = <<>> THEN <<(<<key, v>>)>>
    ELSE IF ps[1][1] = key THEN <<(<<key, v>>)>> \o Tail(ps)
    ELSE <<ps[1]>> \o Put(Tail(ps), key, v)

\* What is stored for a field of the item: the text of the cleaned value for
\* a mapping or a sequence, the value itself otherwise.
Stored(v) ==
    IF KindOf(v) \in {"dict", "list"} THEN dumps(clean_xml_artifacts(v)) ELSE v

\* What is stored for a field of the ItemInformation mapping.
LiftedAsIs(v) == v
Lifted(v) ==
    IF KindOf(v) \in {"dict", "list"} THEN dumps(clean_xml_artifacts(v)) ELSE v

RECURSIVE Lift(_, _)
Lift(subs, processed) ==
    IF subs = <<>> THEN processed
    ELSE Lift(Tail(subs), Put(processed, subs[1][1], Lifted(subs[1][2])))

\* The loop over the fields of the item.  The fields of a mapping under the
\* key ItemInformation are lifted, in every stream.
RECURSIVE Process(_, _)
Process(ps, processed) ==
    IF ps = <<>> THEN processed
    ELSE LET key == ps[1][1]
             value == ps[1][2]
         IN  IF KindOf(value) = "dict" /\ key = "ItemInformation"
             THEN Process(Tail(ps), Lift(ValOf(value), processed))
             ELSE Process(Tail(ps), Put(processed, key, Stored(value)))

PaginatedStream_process_nested_objects(item) == Dict(Process(ValOf(item), <<>>))

\* clean_xml_artifacts of SherpaStream._process_nested_objects.
RECURSIVE SherpaStream_clean_xml_artifacts(_)
SherpaStream_clean_xml_artifacts(obj) ==
    IF KindOf(obj) = "dict"
    THEN IF ValOf(obj) = <<>> THEN Null
         ELSE Dict([i \in 1..Len(ValOf(obj)) |->
                      <<ValOf(obj)[i][1], SherpaStream_clean_xml_artifacts(ValOf(obj)[i][2])>>])
    ELSE IF KindOf(obj) = "list"
    THEN LET kept == SelectSeq(ValOf(obj), LAMBDA v : v # Null)
         IN  List([i \in 1..Len(kept) |-> SherpaStream_clean_xml_artifacts(kept[i])])
    ELSE obj

\* processed.items() of None raises AttributeError.
Raises == <<"raised", <<>>>>

SherpaStream_process_nested_objects(item) ==
    LET cleaned == SherpaStream_clean_xml_artifacts(item)
    IN  IF cleaned = Null THEN Raises
        ELSE Dict([i \in 1..Len(ValOf(cleaned)) |->
                     LET value == ValOf(cleaned)[i][2]
                     IN  IF KindOf(value) \in {"dict", "list"} /\ ValOf(value) # <<>>
                         THEN <<ValOf(cleaned)[i][1], dumps(value)>>
                         ELSE ValOf(cleaned)[i]])

\* self._process_nested_objects(item) on a stream of class c.
process_nested_objects(c, item) ==
    IF c = "PaginatedStream" THEN PaginatedStream_process_nested_objects(item)
    ELSE SherpaStream_process_nested_objects(item)

\* map_record returns the item it is given, the same object.
map_record(item) == item

\* response.get("ResponseTime", 0)
response_time == Str(<<"0">>)

\* The record of driver d is the item object of the response: the driver
\* named token maps the item itself, the other two map the new mapping
\* _process_nested_objects returns.
SharesItem(d) == d = "token"

\* The body of the loop over the items, for one item: normalise (but for
\* the driver named token), map, attach response_time, yield.  A record that
\* is empty is not yielded.
HandleItem ==
    /\ npc = "received"
    /\ LET p == IF SharesItem(driver) THEN raw
                ELSE process_nested_objects(klass, raw)
       IN  IF p = Raises
           THEN /\ npc' = "raised"
                /\ processed_item' = None
                /\ record' = None
                /\ raw' = raw
           ELSE /\ npc' = "emitted"
                /\ processed_item' = IF SharesItem(driver) THEN None ELSE p
                /\ record' =
                     IF ValOf(map_record(p)) = <<>> THEN None
                     ELSE Dict(Put(ValOf(map_record(p)), "response_time", response_time))
                /\ raw' =
                     IF SharesItem(driver) /\ record' # None THEN record' ELSE raw
    /\ UNCHANGED <<klass, collection, received, renorm, paging, fanout,
                   offsetting>>

\* _process_nested_objects applied to what it returned.
NormalizeAgain ==
    /\ npc = "emitted"
    /\ ~SharesItem(driver)
    /\ renorm' = process_nested_objects(klass, processed_item)
    /\ npc' = IF renorm' = Raises THEN "raised" ELSE "again"
    /\ UNCHANGED <<klass, collection, raw, received, processed_item, record, paging,
                   fanout, offsetting>>

\* An item of a page arrives at the loop of a driver.  The drivers of
\* PaginatedStream are not there on a plain SherpaStream.
InitNormalizer ==
    /\ InitCommon /\ written = NoBookmark /\ db = <<>>
    /\ max_retries = DefaultMaxRetries
    /\ Unconfigured
    /\ FanIdle /\ OffsetIdle
    /\ klass \in Classes
    /\ klass = "SherpaStream" => driver = "token_pagination"
    /\ collection \in Collections
    /\ raw \in RawItems
    /\ received = raw
    /\ processed_item = None
    /\ record = None
    /\ renorm = None
    /\ npc = "received"

NextNormalizer ==
    \/ HandleItem
    \/ NormalizeAgain

SpecNormalizer == InitNormalizer /\ [][NextNormalizer]_vars

\* ------------------------------------------------------------ offset mode
\* get_records_with_offset against a service that answers as it likes.

\* What a response holds under records: no key, or so many records.
OffsetPages == {NoRecords} \cup 0..MaxPage

\* len(response.get("records", []))
Length(n) == IF n = NoRecords THEN 0 ELSE n

\* offset += len(records)
NextOffset(off, n) == off + n

\* The stop test after a page, holding also when the page is full.
ShortOrFull(n, lim) == n <= lim

\* len(records) < limit
Short(n, lim) == n < lim

\* offset = 0; limit = chunk_size
StartOffset ==
    /\ opc = "idle"
    /\ offset' = 0
    /\ limit' = chunk_size
    /\ opc' = "request"
    /\ UNCHANGED <<records, opos, emittedTotal, reqOffset, reqLimit, ofetches,
                   oattempts, offsetState, offsetWritten, paging, fanout, normalizer>>

\* An attempt of _make_request fails: it is made again, and the third
\* failure ends the call.
OffsetRequestFails ==
    /\ opc = "request"
    /\ ofetches < MaxFetch
    /\ reqOffset' = offset
    /\ reqLimit' = limit
    /\ oattempts' = oattempts + 1
    /\ opc' = IF oattempts' = MaxAttempts THEN "raised" ELSE "request"
    /\ UNCHANGED <<offset, limit, records, opos, emittedTotal, ofetches,
                   offsetState, offsetWritten, paging, fanout, normalizer>>

\* _make_request returns; a response with no records ends the loop.
OffsetResponse ==
    /\ opc = "request"
    /\ ofetches < MaxFetch
    /\ \E n \in OffsetPages :
            /\ records' = n
            /\ opc' = IF Length(n) = 0 THEN "done" ELSE "records"
    /\ reqOffset' = offset
    /\ reqLimit' = limit
    /\ oattempts' = 0
    /\ ofetches' = ofetches + 1
    /\ opos' = 0
    /\ UNCHANGED <<offset, limit, emittedTotal, offsetState, offsetWritten,
                   paging, fanout, normalizer>>

\* for record in records: yield record
YieldRecord ==
    /\ opc = "records"
    /\ opos < Length(records)
    /\ opos' = opos + 1
    /\ emittedTotal' = emittedTotal + 1
    /\ UNCHANGED <<offset, limit, opc, records, reqOffset, reqLimit, ofetches,
                   oattempts, offsetState, offsetWritten, paging, fanout, normalizer>>

\* After the records of the page: the offset moves on, the state is set and
\* written, and a short page ends the loop.
OffsetEndPage ==
    /\ opc = "records"
    /\ opos = Length(records)
    /\ offset' = NextOffset(offset, Length(records))
    /\ offsetState' = offset'
    /\ offsetWritten' = offset'
    /\ opc' = IF Short(Length(records), limit) THEN "done" ELSE "request"
    /\ UNCHANGED <<limit, records, opos, emittedTotal, reqOffset, reqLimit,
                   ofetches, oattempts, paging, fanout, normalizer>>

\* A stream set up with any chunk_size, about to call
\* get_records_with_offset.
InitOffset ==
    /\ InitCommon /\ driver = "token" /\ written = NoBookmark /\ db = <<>>
    /\ max_retries = DefaultMaxRetries
    /\ chunk_size \in ChunkSizes
    /\ paginate = TRUE
    /\ keyless = {}
    /\ FanIdle /\ NormIdle /\ OffsetIdle

NextOffsetMode ==
    \/ StartOffset
    \/ OffsetRequestFails
    \/ OffsetResponse
    \/ YieldRecord
    \/ OffsetEndPage

SpecOffset == InitOffset /\ [][NextOffsetMode]_vars

\* ================================================================ claims
TokenLoop == {"token_pagination", "custom_client_method"}

IsMapping(it) == it.dict
Parses(its) == \A i \in 1..Len(its) : its[i].dict => ~TokenRaises(its[i])
TokensOf(its) == {ItemToken(its[i]) : i \in {j \in 1..Len(its) : its[j].dict}}
MaxOf(S) == CHOOSE m \in S : \A x \in S : x <= m
PageMax(its, c) == MaxOf(TokensOf(its) \cup {c})

\* A non-empty page of mappings whose every token parses and is <= c.
NoProgressPage(its, c) ==
    /\ its # <<>>
    /\ \A i \in 1..Len(its) :
        its[i].dict /\ ~TokenRaises(its[i]) /\ ItemToken(its[i]) <= c

\* The container of the response is empty or absent.
Exhausted(r) == r.items = <<>> /\ r.shape \in {"absent", "list", "alt_key"}

\* A request has been issued in this run.
Requested == fetches > 0 \/ attempts > 0 \/ pc = "raised"

\* C1  Monotonicity: within a run the cursor a driver holds never decreases,
\* and the cursor values it persists (tap state, state message) never
\* decrease and are never taken away.
C1_Step ==
    /\ (pc # "idle" /\ pc' \notin {"idle", "crashed", "cancelled"}) => token' >= token
    /\ written'.v >= written.v
    /\ written.has = "value" => written'.has = "value"
    /\ (pc' \notin {"idle", "crashed"} /\ tap_state.has = "value") =>
            (tap_state'.has = "value" /\ tap_state'.v >= tap_state.v)

\* C1: every step of a run keeps or raises the cursor held and persisted.
C1_Monotonic == [][C1_Step]_vars

C1_Witness == pc = "fetch" /\ writes = 2 /\ token = MaxTok /\ written.v = MaxTok

\* C2  Termination on no progress (token_pagination, custom_client_method):
\* after a non-empty page whose every token is <= the cursor, the run emits
\* the records of the page and stops: it does not raise, it goes neither to
\* a cursor write nor to another fetch, and the persisted cursor is what it
\* was when the page was fetched.
C2_NoProgressStops ==
    (driver \in TokenLoop /\ fetches > 0 /\ NoProgressPage(items, pageCursor)) =>
        /\ pc \in {"items", "done"}
        /\ written = fetchStore
        /\ tap_state = fetchStore
        /\ token = pageCursor
        /\ writes = fetches - 1
        /\ pc = "done" => out = items

C2_Witness ==
    /\ driver \in TokenLoop
    /\ pc = "done"
    /\ fetches = 2
    /\ NoProgressPage(items, pageCursor)
    /\ Len(out) = 2

\* C3  Termination on no progress in get_records_with_token: after a
\* non-empty page with no token greater than the cursor the loop stops.
C3_TokenDriverStops ==
    (driver = "token" /\ fetches > 0 /\ NoProgressPage(items, pageCursor)) =>
        pc \in {"items", "done"}

\* C4  Termination on exhaustion (every driver): a response whose item
\* container is empty or absent ends the run at once, with no record from
\* that page, no error, no further fetch and the persisted cursor unchanged.
C4_ExhaustionStops ==
    (fetches > 0 /\ Exhausted(resp)) =>
        /\ pc = "done"
        /\ out = <<>>
        /\ items = <<>>
        /\ written = fetchStore
        /\ tap_state = fetchStore
        /\ token = pageCursor

C4_Witness == pc = "done" /\ fetches = 2 /\ Exhausted(resp) /\ writes = 1

\* C5  Cursor advance and next fetch (token_pagination, custom_client_method):
\* once a page whose maximum token m is greater than the cursor is fully
\* processed, the driver holds m, persists exactly m, does not stop, and the
\* next request it issues carries m.
C5_State ==
    (/\ driver \in TokenLoop
     /\ fetches > 0
     /\ Parses(items)
     /\ PageMax(items, pageCursor) > pageCursor
     /\ pc # "items") =>
        /\ pc \in {"persist", "write"}
        /\ token = PageMax(items, pageCursor)
        /\ pc = "write" => tap_state = [has |-> "value", v |-> token]

C5_Step ==
    /\ (pc = "write" /\ pc' = "fetch") =>
            (written' = [has |-> "value", v |-> token] /\ token' = token)
    /\ (pc = "fetch" /\ pc' \in {"fetch", "items", "done", "raised"}) =>
            reqCursor' = token

\* C5: the page maximum is held and persisted, and the state message and the
\* next request carry it.
C5_AdvanceAndNextFetch == []C5_State /\ [][C5_Step]_vars

\* Scenario A with the tokens of the model: cursor 1, tokens [2, 3]: two
\* records, cursor 3 on its way to the state message.
C5_Witness ==
    /\ driver \in TokenLoop
    /\ pc = "write"
    /\ pageCursor = DefaultToken
    /\ items = <<IntItem(2, 0), IntItem(3, 0)>>
    /\ Len(out) = 2
    /\ tap_state = [has |-> "value", v |-> 3]

\* C6  Max-not-count, one record per item (token_pagination,
\* custom_client_method): the records emitted from a page are its mappings
\* processed so far, one each, in arrival order, duplicates of a token
\* included; the cursor persisted after the page is the maximum token of
\* the page, whatever the number or the order of its items.
C6_OnePerItemMaxCursor ==
    driver \in TokenLoop =>
        /\ out = SelectSeq(SubSeq(items, 1, idx - 1), IsMapping)
        /\ pc = "write" =>
                tap_state = [has |-> "value", v |-> PageMax(items, pageCursor)]

\* Scenario B with the tokens of the model: tokens [2, 2] after cursor 1 give
\* two records and cursor 2 (a count-based cursor would be 3).
C6_Witness ==
    /\ driver \in TokenLoop
    /\ pc = "write"
    /\ pageCursor = DefaultToken
    /\ items = <<IntItem(2, 0), IntItem(2, 0)>>
    /\ out = items
    /\ tap_state = [has |-> "value", v |-> 2]

\* C7  Default starting cursor (every driver): when the state holds no
\* bookmark, or a bookmark with no cursor value, the driver enters its loop
\* with cursor 1 and the first request of the run carries cursor 1.
C7_DefaultStart ==
    /\ (pc = "fetch" /\ fetches = 0 /\ tap_state.has # "value") => token = DefaultToken
    /\ (written.has # "value" /\ Requested) => reqCursor = DefaultToken

C7_Witness ==
    /\ driver = "token_pagination"
    /\ written.has = "novalue"
    /\ fetches = 1
    /\ reqCursor = DefaultToken

\* C8  Persist before next fetch (every driver): whenever the driver is about
\* to issue a fetch, every page fetched so far in the run has had exactly
\* one cursor write (state increment and state message), and the state
\* message written last carries the cursor of the request.
C8_PersistBeforeFetch ==
    pc = "fetch" =>
        /\ writes = fetches
        /\ fetches > 0 =>
            /\ tap_state = [has |-> "value", v |-> token]
            /\ written = tap_state

C8_Witness == pc = "fetch" /\ fetches = 2 /\ writes = 2

\* C9  Restart resumes from the persisted cursor (every driver): in a run
\* that follows a run which wrote cursor c, the first request carries c.
C9_RestartResumes ==
    (run > 1 /\ wrote /\ writes = 0 /\ Requested) =>
        /\ written.has = "value"
        /\ reqCursor = written.v

C9_Witness ==
    /\ run = 2
    /\ wrote
    /\ writes = 0
    /\ fetches = 1
    /\ reqCursor = MaxTok

\* C10  Crash duplicate bound (ordered service): the items emitted but not
\* yet covered by a cursor write all belong to one page, the page the
\* service returns for the persisted cursor; and the items a run emits again
\* after a restart all belong to that page, which was in flight when the
\* previous run stopped.
PersistedPage == DbResponse(db, StartingToken(driver, written)).items

\* C10: what is emitted and not persisted is within one page; what is
\* emitted again after a restart is within the page in flight at the stop.
C10_DuplicateBound ==
    /\ unpersisted \subseteq Ids(PersistedPage)
    /\ (emittedNow \cap emittedBefore) \subseteq inflight

C10_Witness ==
    /\ run = 2
    /\ inflight # {}
    /\ emittedNow \cap emittedBefore # {}
    /\ emittedBefore \ inflight # {}

\* The run raised out of a fetch (not out of the processing of an item).
FetchRaised == pc = "raised" /\ raisedErr # "ItemError"

\* The errors the retry policy of the specification does not retry.
Fatal == {"auth", "malformed"}

\* C11  No cursor write for a partially emitted page: while a page is being
\* emitted the cursor in the tap state and in the last state message is what
\* it was when the page was fetched; a cursor is on its way to the state only
\* once every item of the page has been through the loop and every mapping
\* of it has been emitted; and when the consumer stops pulling records in
\* the middle of a page, no cursor of that page is in the state.
C11_NoPartialPageWrite ==
    /\ pc = "items" => (written = fetchStore /\ tap_state = fetchStore)
    /\ pc \in {"persist", "write"} =>
            /\ idx > Len(items)
            /\ out = SelectSeq(items, IsMapping)
            /\ written = fetchStore
    /\ pc = "cancelled" =>
            /\ written = fetchStore
            /\ tap_state = fetchStore
            /\ writes = fetches - 1

\* Cancelled during the second page of a run, after the cursor write of the
\* first.
C11_Witness ==
    /\ pc = "cancelled"
    /\ fetches = 2
    /\ writes = 1
    /\ written.has = "value"

\* C12  Retry success path (_make_soap_request, _make_request): every failed
\* attempt that is followed by another attempt is followed by one backoff
\* wait; when the third attempt returns, two waits were made, the response
\* is handed to the driver, and the page is counted and processed once: no
\* record of it is out yet and it has had no cursor write; every page
\* in process has had none, every page left behind has had one.
C12_RetrySuccess ==
    /\ pc = "fetch" => (waits = attempts /\ attempts < MaxAttempts /\ writes = fetches)
    /\ (driver \in Retrying /\ pc \in {"items", "done"} /\ waits = 2) =>
            /\ attempts = 0
            /\ raisedErr = "none"
            /\ resp \in Responses
            /\ items = Container(driver, resp).items
            /\ idx = 1
            /\ out = <<>>
    /\ pc \in {"items", "persist", "write"} => writes = fetches - 1

C12_Witness ==
    /\ driver \in Retrying
    /\ pc = "items"
    /\ waits = 2
    /\ attempts = 0
    /\ Len(items) = 2
    /\ fetches = 1

\* C13  Every page fetch is wrapped by the retry policy (every driver): a run
\* raises out of a fetch only after more than one attempt.
C13_EveryFetchRetried == FetchRaised => attempts > 1

\* C14  Retry classification (_make_soap_request, _make_request): after an
\* attempt raised an authentication or a malformed-request failure no other
\* attempt is made: the run has raised, after that one attempt.
C14_FatalNotRetried ==
    (driver \in Retrying /\ lastErr \in Fatal) => (pc = "raised" /\ attempts = 1)

\* C15  Retry attempt limit is the configured one: a fetch that fails on
\* every attempt is attempted max_retries times before the run raises.
C15_ConfiguredLimit ==
    (driver \in Retrying /\ FetchRaised) => attempts = max_retries

\* C16  Exhausting retries propagates the last error: what reaches the
\* caller of the run is the error the last attempt raised.
C16_LastErrorPropagates == FetchRaised => raisedErr = lastErr

\* C17  State preserved on failure: when a run raises out of a fetch after k
\* pages, the state message written last and the tap state are those of
\* page k (the state the run started with when k = 0), k cursor writes were
\* made, no record of an unfinished page is out, and every record the run
\* emitted belongs to a page whose cursor was written.
C17_StatePreservedOnFailure ==
    FetchRaised =>
        /\ written = fetchStore
        /\ tap_state = fetchStore
        /\ writes = fetches
        /\ fetches > 0 => written = [has |-> "value", v |-> token]
        /\ out = <<>>
        /\ items = <<>>
        /\ emittedNow \cap unpersisted = {}

\* Retries exhausted after two pages.
C17_Witness ==
    /\ FetchRaised
    /\ attempts = MaxAttempts
    /\ fetches = 2
    /\ writes = 2
    /\ Cardinality(emittedNow) > 2

\* An item that is a mapping whose Token is missing, null or no integer.
Unparseable(it) == it.dict /\ it.tk # "int"

\* C18  Token default 0 (every driver): an item whose Token is missing, null
\* or no integer raises no error, is emitted in its place like every other
\* mapping, and counts as token 0 in the cursor written after the page.
C18_TokenDefaultZero ==
    /\ \A i \in 1..Len(items) :
            Unparseable(items[i]) => ~(pc = "raised" /\ idx = i)
    /\ out = SelectSeq(SubSeq(items, 1, idx - 1), IsMapping)
    /\ (driver \in TokenLoop /\ pc = "write") =>
            tap_state.v = PageMax(items, pageCursor)

\* C19  Partial item skip (every driver): an item that is no mapping raises
\* no error; the mappings before the item in process are all emitted, in
\* order; the cursor written after the page is the maximum over the
\* mappings only.
C19_PartialItemSkip ==
    /\ \A i \in 1..Len(items) :
            ~items[i].dict => ~(pc = "raised" /\ idx = i)
    /\ pc # "raised" => out = SelectSeq(SubSeq(items, 1, idx - 1), IsMapping)
    /\ (driver \in TokenLoop /\ pc = "write") =>
            tap_state = [has |-> "value", v |-> MaxOf(TokensOf(items) \cup {pageCursor})]

\* C20  Malformed container halts cleanly (every driver): after a response
\* whose item container is a scalar the run stops: no record is emitted, no
\* cursor is written, no other fetch follows.
C20_MalformedContainerHalts ==
    (fetches > 0 /\ resp.shape = "scalar") =>
        /\ pc \in {"items", "done"}
        /\ out = <<>>
        /\ written = fetchStore
        /\ tap_state = fetchStore
        /\ token = pageCursor

\* C21  Fan-out deduplication (ChangedPurchasesStream): in every run, each
\* OrderNumber the run has observed got a context exactly once, at its first
\* occurrence in the run.
C21_ContextOncePerKey ==
    fanStream = "changed_purchases" =>
        \A k \in Keys :
            occurrences[k] > 0 => (contexts[k] = 1 /\ first[k] = "ctx")

\* C22  The fan-out key set is scoped to one run of one instance
\* (ChangedPurchasesStream): an instance that has observed no key yet has
\* an empty set, and a key that got a context in an earlier run gets one
\* again the first time the new run observes it.
C22_KeySetPerInstance ==
    fanStream = "changed_purchases" =>
        /\ (\A k \in Keys : occurrences[k] = 0) => seen = {}
        /\ \A k \in given : occurrences[k] > 0 => first[k] = "ctx"

\* C23  Fan-out deduplication for suppliers (ChangedSuppliersStream): in a
\* run no ClientCode gets more than one context.
C23_SupplierContextOnce ==
    fanStream = "changed_suppliers" => \A k \in Keys : contexts[k] <= 1

\* ---- the normalizer
\* The item has been normalised by the _process_nested_objects of its class.
Normalized == npc \in {"emitted", "again"} /\ ~SharesItem(driver)

\* A string that holds the text of a JSON value.
IsText(v) == KindOf(v) = "str" /\ ValOf(v) # <<>> /\ ValOf(v)[1] \in {"{", "[", "null", "\""}

\* What a stored value holds: the value of its text, or itself.
Inside(v) == IF IsText(v) THEN loads(ValOf(v)) ELSE v

\* Some mapping of v, at any level, has a key with the marker.
RECURSIVE HasMeta(_)
HasMeta(v) ==
    IF KindOf(v) = "dict"
    THEN \E i \in 1..Len(ValOf(v)) : IsMeta(ValOf(v)[i][1]) \/ HasMeta(ValOf(v)[i][2])
    ELSE IF KindOf(v) = "list" THEN \E i \in 1..Len(ValOf(v)) : HasMeta(ValOf(v)[i])
    ELSE FALSE

\* v is, or holds at some level, an empty mapping or an empty sequence.
RECURSIVE HasEmpty(_)
HasEmpty(v) ==
    IF KindOf(v) = "dict"
    THEN ValOf(v) = <<>> \/ \E i \in 1..Len(ValOf(v)) : HasEmpty(ValOf(v)[i][2])
    ELSE IF KindOf(v) = "list"
    THEN ValOf(v) = <<>> \/ \E i \in 1..Len(ValOf(v)) : HasEmpty(ValOf(v)[i])
    ELSE FALSE

\* The value a mapping, held as pairs, has for a key (None: no such key).
RECURSIVE Lookup(_, _)
Lookup(ps, key) ==
    IF ps = <<>> THEN None
    ELSE IF ps[1][1] = key THEN ps[1][2]
    ELSE Lookup(Tail(ps), key)

HasKey(ps, key) == \E i \in 1..Len(ps) : ps[i][1] = key

\* clean as section 4.2 words it: the keys with the marker are stripped, an
\* empty mapping and an empty sequence become an absent value, and what
\* becomes absent is left out of what holds it.
RECURSIVE CleanSpec(_)
RECURSIVE CleanSpecPairs(_)
RECURSIVE CleanSpecElems(_)
CleanSpecPairs(ps) ==
    IF ps = <<>> THEN <<>>
    ELSE LET c == CleanSpec(ps[1][2])
         IN  IF IsMeta(ps[1][1]) \/ c = None THEN CleanSpecPairs(Tail(ps))
             ELSE <<(<<ps[1][1], c>>)>> \o CleanSpecPairs(Tail(ps))
CleanSpecElems(es) ==
    IF es = <<>> THEN <<>>
    ELSE LET c == CleanSpec(es[1])
         IN  IF c = None THEN CleanSpecElems(Tail(es))
             ELSE <<c>> \o CleanSpecElems(Tail(es))
CleanSpec(v) ==
    IF KindOf(v) = "dict"
    THEN LET c == CleanSpecPairs(ValOf(v)) IN IF c = <<>> THEN None ELSE Dict(c)
    ELSE IF KindOf(v) = "list"
    THEN LET c == CleanSpecElems(ValOf(v)) IN IF c = <<>> THEN None ELSE List(c)
    ELSE v

\* The unwrap key of a collection: ItemInformation for the stream whose
\* items the service wraps in it, none for the others.
UnwrapKey(c) == IF c = "changed_items_information" THEN "ItemInformation" ELSE "none"

\* C24  Metadata stripping at every level: the record _process_nested_objects
\* returns has no key with the marker '@', neither among its top-level fields
\* nor inside a serialized composite value.
C24_NoMetadataKeys ==
    Normalized =>
        \A i \in 1..Len(ValOf(processed_item)) :
            /\ ~IsMeta(ValOf(processed_item)[i][1])
            /\ ~HasMeta(Inside(ValOf(processed_item)[i][2]))

\* C25  Empty collapse: in the record _process_nested_objects returns, no
\* field holds an empty mapping or an empty sequence, at any level, as a
\* container or inside a text, and no field holds the text of null.
C25_EmptyCollapse ==
    Normalized =>
        \A i \in 1..Len(ValOf(processed_item)) :
            LET value == ValOf(processed_item)[i][2]
            IN  /\ ~HasEmpty(Inside(value))
                /\ ~(IsText(value) /\ Inside(value) = None)

\* C26  Idempotent normalization: _process_nested_objects applied to the
\* record it returned gives that record again.
C26_Idempotent == npc = "again" => renorm = processed_item

\* C26 witness: an item with the ItemInformation mapping has been normalised
\* to a record that differs from it and holds a text, and the record has
\* been normalised again.
C26_Witness ==
    /\ npc = "again"
    /\ HasKey(ValOf(received), "ItemInformation")
    /\ processed_item # received
    /\ \E i \in 1..Len(ValOf(processed_item)) : IsText(ValOf(processed_item)[i][2])

\* C27  Round trip of composite fields: for every field of an item whose
\* value v is a mapping or a sequence, the string PaginatedStream stores for
\* it decodes to clean(v), clean stripping the marker keys and collapsing
\* what is empty; a scalar is stored unchanged.  (The fields of a lifted
\* ItemInformation mapping are not looked at.)
C27_RoundTrip ==
    (Normalized /\ klass = "PaginatedStream") =>
        \A i \in 1..Len(ValOf(received)) :
            LET key == ValOf(received)[i][1]
                v == ValOf(received)[i][2]
                stored == Lookup(ValOf(processed_item), key)
            IN  IF KindOf(v) = "dict" /\ key = "ItemInformation" THEN TRUE
                ELSE IF KindOf(v) \in {"dict", "list"}
                THEN IsText(stored) /\ loads(ValOf(stored)) = CleanSpec(v)
                ELSE stored = v

\* C28  The input is not mutated: once the item has been handled and
\* response_time is attached to the record, the item object of the response
\* has the value it had when the transport returned it.
C28_InputNotMutated == npc \in {"emitted", "again"} => raw = received

\* C29  The unwrap is configured per collection: in a stream with no unwrap
\* key, a field named ItemInformation that holds a mapping is stored as the
\* text of a composite, and is not lifted; in the stream with the unwrap
\* key its fields are lifted.
C29_UnwrapPerCollection ==
    (Normalized /\ klass = "PaginatedStream") =>
        \A i \in 1..Len(ValOf(received)) :
            LET key == ValOf(received)[i][1]
                v == ValOf(received)[i][2]
            IN  (key = "ItemInformation" /\ KindOf(v) = "dict") =>
                    IF UnwrapKey(collection) = key
                    THEN \A j \in 1..Len(ValOf(v)) :
                            HasKey(ValOf(processed_item), ValOf(v)[j][1])
                    ELSE IsText(Lookup(ValOf(processed_item), key))

\* C30  Records-processed count: between two pages, and once the run has
\* stopped, the _total_records counter is the number of records the run has
\* emitted.
C30_RecordsProcessedCount ==
    pc \in {"fetch", "done"} => total_records = Cardinality(emittedNow)

\* ---- the streams as set up
\* The run is over.
Ended == pc \in {"done", "raised", "crashed", "cancelled"}

\* C31  Page size follows configuration: every request a run has issued
\* carries the chunk_size setting as its page size.
C31_PageSizeConfigured == reqSize # 0 => reqSize = chunk_size

\* C33  Finite run: against a service whose tokens are bounded (by MaxTok), a
\* run of a token driver that has started comes to its end.
C33_FiniteRun == (pc = "fetch") ~> Ended

\* C35  Single-item detail lookup: a run of a detail stream (paginate =
\* False) issues one fetch, and has emitted the detail item once when it is
\* over.
C35_DetailLookupOnce ==
    ~paginate =>
        /\ fetches <= 1
        /\ (pc = "done" /\ resp.shape = "result_item") => Len(out) = 1

\* ---- the token drivers, continued
\* C32  Single-mapping container is a one-item page: when the item container
\* of the response is one mapping, the page the driver processes is that one
\* item, and once the page is processed the item has been emitted and its
\* token counted.
C32_SingleIsOnePage ==
    (fetches > 0 /\ resp.shape = "single") =>
        /\ items = resp.items
        /\ (pc \in {"persist", "write", "done"} \/ (pc = "items" /\ idx > 1)) =>
                /\ out = resp.items
                /\ highest_token = PageMax(resp.items, pageCursor)

\* C36  Strictly increasing request cursors (token_pagination,
\* custom_client_method): when the run is about to issue the first request
\* of a fetch that is not its first, the cursor it holds is greater than
\* the cursor of the last request it issued.
C36_RequestCursorsIncrease ==
    (driver \in TokenLoop /\ pc = "fetch" /\ fetches >= 1 /\ attempts = 0) =>
        token > reqCursor

\* C36 witness: the run is about to issue its third fetch, with a cursor
\* two steps above its first.
C36_Witness ==
    /\ driver \in TokenLoop
    /\ pc = "fetch"
    /\ fetches = 2
    /\ attempts = 0
    /\ writes = 2
    /\ token > reqCursor
    /\ reqCursor > DefaultToken

\* C34  Response time side channel: every record emitted from the page in
\* hand carries as response_time the ResponseTime of the response of that
\* page, or 0 when the response has none; all the records of the page
\* carry the same value.
C34_ResponseTime ==
    /\ Len(times) = Len(out)
    /\ \A i \in 1..Len(times) :
        /\ resp.rt # NoTime => times[i] = resp.rt
        /\ resp.rt = NoTime => times[i] = 0
        /\ times[i] = times[1]

\* C34 witness: two records have been emitted from a page whose response
\* has a ResponseTime.
C34_Witness ==
    /\ Len(out) = 2
    /\ resp.rt \in 1..MaxTime
    /\ times = <<resp.rt, resp.rt>>

\* ---- changed_purchases
\* C37  Filtered purchases still advance the cursor: get_records of
\* ChangedPurchasesStream yields no record without an OrderNumber (and every
\* other record of its driver), while the maximum of a processed page is
\* taken over all its items, those without an OrderNumber included.
C37_FilteredStillAdvance ==
    fanStream = "changed_purchases" =>
        /\ yielded \cap keyless = {}
        /\ yielded = emittedNow \ keyless
        /\ (pc \in {"persist", "write"} \/ (pc = "items" /\ idx > Len(items))) =>
                highest_token = PageMax(items, pageCursor)

\* C37 witness: the cursor that was written is the token of an item with no
\* OrderNumber, which the driver emitted and get_records did not yield.
C37_Witness ==
    /\ wrote
    /\ written.has = "value"
    /\ \E i \in keyless :
        /\ db[i] = written.v
        /\ i \in emittedNow
        /\ i \notin yielded
        /\ \A j \in 1..Len(db) : (j \notin keyless) => db[j] < db[i]
    /\ yielded # {}

\* ---- the fan-out, continued
\* C38  No child sync without a context (ChangedPurchasesStream): no child
\* sync is done for a record that got no context, one is done for each
\* context, and the keys of the seen-key set are the keys that got a
\* context (in this run or an earlier one).
C38_NoSyncWithoutContext ==
    fanStream = "changed_purchases" =>
        /\ nullSyncs = 0
        /\ \A k \in Keys : syncs[k] = contexts[k]
        /\ seen = given \cup {k \in Keys : contexts[k] > 0}

\* C38 witness: a key was handed in three times, got one context and one
\* child sync, and another key got none in this run because an earlier run
\* had seen it.
C38_Witness ==
    /\ fanStream = "changed_purchases"
    /\ \E k \in Keys :
        /\ occurrences[k] = 3
        /\ contexts[k] = 1
        /\ syncs[k] = 1
    /\ \E k \in given : occurrences[k] > 0 /\ syncs[k] = 0

\* ---- offset mode
\* C39  Offset mode bookkeeping: every request of get_records_with_offset
\* carries the configured chunk_size as its limit and, as its offset, the
\* number of records emitted before it; after each processed page the offset
\* held for the next request is the number of records emitted so far; the
\* loop goes on after a page only if the page was full, and is over only
\* after a page that was empty or shorter than chunk_size.
C39_OffsetBookkeeping ==
    /\ (ofetches > 0 \/ oattempts > 0) => reqLimit = chunk_size
    /\ opc = "records" => reqOffset = emittedTotal - opos
    /\ (opc = "request" /\ oattempts > 0) => reqOffset = emittedTotal
    /\ opc \in {"request", "done", "raised"} => offset = emittedTotal
    /\ (opc = "request" /\ ofetches > 0) =>
            (Length(records) > 0 /\ Length(records) >= chunk_size)
    /\ opc = "done" =>
            (Length(records) = 0 \/ Length(records) < chunk_size)

C39_Witness ==
    /\ opc = "done" /\ ofetches = 3 /\ chunk_size = 2
    /\ records = 1 /\ reqOffset = 4 /\ offset = 5 /\ emittedTotal = 5
    /\ offsetWritten = 5

====
